---- MODULE Spec2Model ----
(***************************************************************************)
(* django-gitversions: the dump command (gitversions.py: Command.handle    *)
(* and sort_dependencies) and the restore command (gitrestore.py:          *)
(* Command.handle, Command.loaddata and save_all) as state machines.       *)
(*                                                                         *)
(* Three specifications share the module:                                  *)
(*   SpecSort     sort_dependencies alone, over every dependency graph of  *)
(*                the bounded registry;                                   *)
(*   SpecDump     gitversions Command.handle, which calls it;              *)
(*   SpecRestore  gitrestore Command.handle with loaddata and save_all;    *)
(*   SpecSaveAll  save_all alone, from every start value of the counter.   *)
(***************************************************************************)
EXTENDS Integers, Sequences, FiniteSets, TLC

(***************************************************************************)
(* Bounds of the model.                                                    *)
(***************************************************************************)
\* registered model classes are 1..NumModels; a model's __name__ orders as
\* its number
NumModels == 3
\* installed apps are 1..NumApps
NumApps == 2
\* the command line holds at most MaxLabels app_label[.ModelName] arguments
MaxLabels == 2
\* and at most MaxExcludes --exclude options
MaxExcludes == 1
\* a queryset holds at most MaxRows instances
MaxRows == 1
\* the backup directory holds at most MaxUnits fixture files
MaxUnits == 3
\* the passes of the first loop of the restore up to which a
\* TransactionManagementError is raised
MaxPasses == 3

\* the cap of save_all on its iterations (gitrestore.py line 51)
MaxIterations == 25

Models == 1..NumModels
Apps == 1..NumApps

(***************************************************************************)
(* Helpers on sequences (Python list operations).                          *)
(***************************************************************************)
Range(s) == {s[k] : k \in 1..Len(s)}

\* x in list
InSeq(x, s) == \E k \in 1..Len(s) : s[k] = x

\* list.reverse()
Reverse(s) == [k \in 1..Len(s) |-> s[Len(s) + 1 - k]]

\* sorted(S) for a set of numbers
RECURSIVE SortedSeq(_)
SortedSeq(S) ==
    IF S = {} THEN << >>
    ELSE LET m == CHOOSE x \in S : \A y \in S : x <= y
         IN  <<m>> \o SortedSeq(S \ {m})

(***************************************************************************)
(* The app registry (django.apps.apps), as the dump command reads it.      *)
(***************************************************************************)
\* the app a registered model belongs to
AppOf(m) == ((m - 1) % NumApps) + 1

\* app_config.get_models()
get_models(app) == SortedSeq({m \in Models : AppOf(m) = app})

\* a label app_label[.ModelName]: app 0 is a name no installed app has,
\* model -1 is a label without a model qualifier, model 0 a name no
\* registered model has
Labels == [app : 0..NumApps, model : -1..NumModels]

\* apps.get_app_config(app_label) raises LookupError
UnknownApp(label) == label.app \notin Apps

\* app_config.get_model(model_label) / apps.get_model(label) raises LookupError
UnknownModel(label) ==
    \/ label.app \notin Apps
    \/ label.model \notin Models
    \/ AppOf(label.model) # label.app

(***************************************************************************)
(* State.                                                                  *)
(***************************************************************************)
VARIABLES
    \* --- the registry and the argument of sort_dependencies
    natural,            \* natural[m]: hasattr(m, 'natural_key')
    app_list,           \* list of pairs (app_config, model_list)
    \* --- sort_dependencies
    sortPc,             \* position in sort_dependencies
    todo,               \* models the two for loops have still to visit
    models,             \* set of the models being serialized
    model_dependencies, \* list of (model, deps)
    graph,              \* graph[m]: the deps of m as the for loops built them
    model_list,         \* the final list
    skipped,            \* models not promoted in the current scan pass
    changed,            \* a model was promoted in the current scan pass
    passes,             \* the scan passes the outer while has started
    sortError,          \* the models named by the CommandError, sorted by name
    \* --- gitversions Command.handle
    dumpPc,             \* position in handle
    models_module,      \* models_module[app]: app_config.models_module is not None
    excludes_read,      \* how many of options['exclude'] the loop has read
    excluded_apps,
    excluded_models,
    n_labels,           \* len(app_labels)
    labels_read,        \* how many of app_labels the loop has read
    primary_keys,       \* TRUE: the primary_keys list is not empty
    written,            \* the models handed to versioner.handle, in order
    instances,          \* the instance counter
    commit,             \* options['commit']
    push,               \* options['push']
    flags,              \* the flags -a, -c, -p of the command line
    commits,            \* the push flag of every versioner.backend.commit call
    dumpError,          \* the CommandError that ended handle
    \* --- the fixtures and the database of the restore
    units,              \* units[u]: what fixture file u holds
    store,              \* the rows of the database, by the unit they come from
    \* --- gitrestore Command.handle
    restorePc,          \* position in handle (or in a lone save_all call)
    connected,          \* post_save is connected to gitversion
    constraint_checks,  \* the connection enforces the foreign keys
    in_atomic,          \* a transaction.atomic block of handle is open
    count_total,
    unloaded,
    processed,
    _processed,         \* the second value the latest loaddata call returned
    skiped,
    really_skiped,
    objects,
    missing_fks,
    i,
    iterations,
    bound,              \* the locals of handle that may be unbound and are bound
    restoreError,       \* the exception that left handle
    \* --- save_all
    sa_objects,         \* the argument "objects" of the running call
    sa_iterations,      \* the argument "iterations" of the running call
    \* --- history
    sa_arg,             \* "objects" as the caller passed it
    sa_start,           \* "iterations" as the caller passed it
    round_at,           \* the value of "iterations" in the latest save round
    attempts,           \* attempts[u]: save attempts of the record of u so far
    fk_failed,          \* units the first loop could not decode for a missing row
    store_b             \* the database when step (b) ended

regVars  == <<natural, app_list>>
sortVars == <<sortPc, todo, models, model_dependencies, graph, model_list,
              skipped, changed, passes, sortError>>
dumpVars == <<dumpPc, models_module, excludes_read, excluded_apps, excluded_models,
              n_labels, labels_read, primary_keys, written, instances, commit,
              push, flags, commits, dumpError>>
loadVars == <<units, store, restorePc, connected, constraint_checks,
              in_atomic,
              _processed, count_total, unloaded,
              processed, skiped, really_skiped, objects, missing_fks, i,
              iterations, bound, restoreError, sa_objects, sa_iterations,
              sa_arg, sa_start, round_at, attempts, fk_failed, store_b>>
vars == <<regVars, sortVars, dumpVars, loadVars>>

(***************************************************************************)
(* sort_dependencies, gitversions.py lines 177-249.                        *)
(***************************************************************************)
\* the model_list of one pair, None standing for all models of the app
ModelsOfPair(pair) == IF pair.all THEN get_models(pair.app) ELSE pair.list

\* the models of the nested for loops, in visiting order
RECURSIVE Visit(_)
Visit(al) ==
    IF al = << >> THEN << >>
    ELSE ModelsOfPair(Head(al)) \o Visit(Tail(al))

\* the dependencies of one model: its declared natural-key dependencies and
\* the natural-key models its FK and M2M fields point to, itself excepted
DepsOf(model, decl, rels) ==
    (IF natural[model] THEN decl ELSE {})
        \cup {r \in rels : natural[r] /\ r # model}

\* Found that takes a dependency as met only when it is on the final list
FoundOnList(deps) == \A d \in deps : InSeq(d, model_list)

\* Found with "any" for "all": one satisfied dependency is enough
FoundAny(deps) ==
    deps = {} \/ \E d \in deps : d \notin models \/ InSeq(d, model_list)

\* lines 233-236: all of the dependencies are on the final list or not being
\* serialized
Found(deps) == \A d \in deps : d \notin models \/ InSeq(d, model_list)

\* lines 184-185: the locals before the for loops
SortEnter ==
    /\ sortPc = "call"
    /\ sortPc' = "build"
    /\ todo' = Visit(app_list)
    /\ models' = {}
    /\ model_dependencies' = << >>
    /\ graph' = [m \in Models |-> {}]
    /\ model_list' = << >>
    /\ skipped' = << >>
    /\ changed' = FALSE
    /\ passes' = 0
    /\ UNCHANGED <<sortError, regVars, dumpVars, loadVars>>

\* lines 190-211: one model of the for loops. decls[m] is the set of what
\* model m may declare: pairs <<natural_key.dependencies, FK and M2M targets>>
SortBuildModel(decls) ==
    /\ sortPc = "build"
    /\ todo # << >>
    /\ LET model == Head(todo)
       IN  \E deps \in {DepsOf(model, d[1], d[2]) : d \in decls[model]} :
              /\ models' = models \cup {model}
              /\ model_dependencies' =
                     Append(model_dependencies, [model |-> model, deps |-> deps])
              /\ graph' = [graph EXCEPT ![model] = deps]
    /\ todo' = Tail(todo)
    /\ UNCHANGED <<sortPc, model_list, skipped, changed, passes, sortError,
                   regVars, dumpVars, loadVars>>

\* lines 213, 222: model_dependencies.reverse(); model_list = []
SortReverse ==
    /\ sortPc = "build"
    /\ todo = << >>
    /\ model_dependencies' = Reverse(model_dependencies)
    /\ model_list' = << >>
    /\ sortPc' = "outer"
    /\ UNCHANGED <<todo, models, graph, skipped, changed, passes, sortError,
                   regVars, dumpVars, loadVars>>

\* lines 223-225: the outer while starts a scan pass
SortPassBegin ==
    /\ sortPc = "outer"
    /\ model_dependencies # << >>
    /\ skipped' = << >>
    /\ changed' = FALSE
    /\ passes' = passes + 1
    /\ sortPc' = "inner"
    /\ UNCHANGED <<todo, models, model_dependencies, graph, model_list,
                   sortError,
                   regVars, dumpVars, loadVars>>

\* lines 226-241: one turn of the inner while
SortPop ==
    /\ sortPc = "inner"
    /\ model_dependencies # << >>
    /\ LET n     == Len(model_dependencies)
           entry == model_dependencies[n]
       IN  /\ model_dependencies' = SubSeq(model_dependencies, 1, n - 1)
           /\ IF Found(entry.deps)
              THEN /\ model_list' = Append(model_list, entry.model)
                   /\ changed' = TRUE
                   /\ UNCHANGED skipped
              ELSE /\ skipped' = Append(skipped, entry)
                   /\ UNCHANGED <<model_list, changed>>
    /\ UNCHANGED <<sortPc, todo, models, graph, passes, sortError,
                   regVars, dumpVars, loadVars>>

\* SortPassEnd without the check of "changed": the models a pass could not
\* promote are dropped and the list is returned without them
SortPassEndSilent ==
    /\ sortPc = "inner"
    /\ model_dependencies = << >>
    /\ model_dependencies' = IF changed THEN skipped ELSE << >>
    /\ sortPc' = "outer"
    /\ UNCHANGED <<todo, models, graph, model_list, skipped, changed, passes, sortError,
                   regVars, dumpVars, loadVars>>

\* SortPassEnd without the raise: the models a pass could not promote are
\* scanned again whether or not the pass promoted one
SortPassEndNoRaise ==
    /\ sortPc = "inner"
    /\ model_dependencies = << >>
    /\ model_dependencies' = skipped
    /\ sortPc' = "outer"
    /\ UNCHANGED <<todo, models, graph, model_list, skipped, changed, passes,
                   sortError, regVars, dumpVars, loadVars>>

\* lines 242-247: the end of a scan pass
SortPassEnd ==
    /\ sortPc = "inner"
    /\ model_dependencies = << >>
    /\ IF ~changed
       THEN /\ sortPc' = "raised"
            /\ sortError' = SortedSeq({skipped[k].model : k \in 1..Len(skipped)})
            /\ UNCHANGED model_dependencies
       ELSE /\ model_dependencies' = skipped
            /\ sortPc' = "outer"
            /\ UNCHANGED sortError
    /\ UNCHANGED <<todo, models, graph, model_list, skipped, changed, passes, regVars,
                   dumpVars, loadVars>>

\* line 249: return model_list
SortReturn ==
    /\ sortPc = "outer"
    /\ model_dependencies = << >>
    /\ sortPc' = "returned"
    /\ UNCHANGED <<todo, models, model_dependencies, graph, model_list, skipped,
                   changed, passes, sortError,
                   regVars, dumpVars, loadVars>>

\* every declaration a model can make
AnyDecls == [m \in Models |-> (SUBSET Models) \X (SUBSET Models)]

(***************************************************************************)
(* gitversions Command.handle, gitversions.py lines 46-174.                *)
(* The options are read where handle first uses them.                      *)
(***************************************************************************)
\* app_list is an OrderedDict: app_config in app_list
HasApp(al, app) == \E k \in 1..Len(al) : al[k].app = app

\* app_list.setdefault(app_config, [])
SetDefault(al, app) ==
    IF HasApp(al, app) THEN al
    ELSE Append(al, [app |-> app, all |-> FALSE, list |-> << >>])

\* app_list[app_config] = None
SetNone(al, app) ==
    IF HasApp(al, app)
    THEN [k \in 1..Len(al) |->
             IF al[k].app = app
             THEN [app |-> app, all |-> TRUE, list |-> << >>] ELSE al[k]]
    ELSE Append(al, [app |-> app, all |-> TRUE, list |-> << >>])

\* lines 111-118: the model of a label is added to the list of its app,
\* unless all models of the app were asked for or the list holds it
AddModel(al, app, model) ==
    LET al2 == SetDefault(al, app)
    IN  [k \in 1..Len(al2) |->
            IF al2[k].app = app /\ ~al2[k].all /\ ~InSeq(model, al2[k].list)
            THEN [al2[k] EXCEPT !.list = Append(@, model)]
            ELSE al2[k]]

\* lines 87-89: every app with a models module that is not excluded
AllApps ==
    LET keep == {a \in Apps : models_module[a] /\ a \notin excluded_apps}
        order == SortedSeq(keep)
    IN  [k \in 1..Len(order) |-> [app |-> order[k], all |-> TRUE, list |-> << >>]]

\* raise CommandError
Raise(kind) ==
    /\ dumpPc' = "error"
    /\ dumpError' = kind

\* lines 68-81: one turn of the loop over the excludes
HandleExclude ==
    /\ dumpPc = "excludes"
    /\ excludes_read < MaxExcludes
    /\ \E exclude \in Labels :
          /\ excludes_read' = excludes_read + 1
          /\ IF exclude.model # -1
             THEN IF UnknownModel(exclude)
                  THEN /\ Raise("exclude_model")
                       /\ UNCHANGED <<excluded_apps, excluded_models>>
                  ELSE /\ excluded_models' = excluded_models \cup {exclude.model}
                       /\ UNCHANGED <<excluded_apps, dumpPc, dumpError>>
             ELSE IF UnknownApp(exclude)
                  THEN /\ Raise("exclude_app")
                       /\ UNCHANGED <<excluded_apps, excluded_models>>
                  ELSE /\ excluded_apps' = excluded_apps \cup {exclude.app}
                       /\ UNCHANGED <<excluded_models, dumpPc, dumpError>>
    /\ UNCHANGED <<models_module, n_labels, labels_read, primary_keys, written,
                   instances, commit, push, flags, commits, regVars, sortVars, loadVars>>

\* lines 83-94: after the excludes, the branch on len(app_labels)
HandleLabels ==
    /\ dumpPc = "excludes"
    /\ \E n \in 0..MaxLabels, pks \in BOOLEAN :
          /\ n_labels' = n
          /\ primary_keys' = pks
          /\ IF n = 0
             THEN IF pks
                  THEN /\ Raise("pks")
                       /\ UNCHANGED app_list
                  ELSE /\ app_list' = AllApps
                       /\ dumpPc' = "format"
                       /\ UNCHANGED dumpError
             ELSE IF n > 1 /\ pks
                  THEN /\ Raise("pks")
                       /\ UNCHANGED app_list
                  ELSE /\ app_list' = << >>
                       /\ dumpPc' = "label"
                       /\ UNCHANGED dumpError
    /\ UNCHANGED <<models_module, excludes_read, excluded_apps, excluded_models,
                   labels_read, written, instances, commit, push, flags, commits,
                   natural, sortVars, loadVars>>

\* lines 95-132: one turn of the loop over the labels
HandleLabel ==
    /\ dumpPc = "label"
    /\ labels_read < n_labels
    /\ \E label \in Labels :
          LET skip == ~models_module[label.app] \/ label.app \in excluded_apps
          IN  /\ labels_read' = labels_read + 1
              /\ IF label.model # -1
                 THEN IF UnknownApp(label)
                      THEN Raise("unknown_app") /\ UNCHANGED app_list
                      ELSE IF skip
                      THEN UNCHANGED <<app_list, dumpPc, dumpError>>
                      ELSE IF UnknownModel(label)
                      THEN Raise("unknown_model") /\ UNCHANGED app_list
                      ELSE /\ app_list' = AddModel(app_list, label.app, label.model)
                           /\ UNCHANGED <<dumpPc, dumpError>>
                 ELSE IF primary_keys
                      THEN Raise("pks") /\ UNCHANGED app_list
                      ELSE IF UnknownApp(label)
                      THEN Raise("unknown_app") /\ UNCHANGED app_list
                      ELSE IF skip
                      THEN UNCHANGED <<app_list, dumpPc, dumpError>>
                      ELSE /\ app_list' = SetNone(app_list, label.app)
                           /\ UNCHANGED <<dumpPc, dumpError>>
    /\ UNCHANGED <<models_module, excludes_read, excluded_apps, excluded_models,
                   n_labels, primary_keys, written, instances, commit, push, flags,
                   commits, natural, sortVars, loadVars>>

\* the loop over the labels ends
HandleLabelsEnd ==
    /\ dumpPc = "label"
    /\ labels_read = n_labels
    /\ dumpPc' = "format"
    /\ UNCHANGED <<models_module, excludes_read, excluded_apps, excluded_models,
                   n_labels, labels_read, primary_keys, written, instances,
                   commit, push, flags, commits, dumpError, regVars, sortVars, loadVars>>

\* HandleFormat with the format looked up only when the serializer is first
\* used: an unknown format is reported after the first model was written
HandleFormatLate ==
    /\ \/ /\ dumpPc = "format"
          /\ dumpPc' = "sort"
          /\ sortPc' = "call"
          /\ UNCHANGED dumpError
       \/ /\ dumpPc = "write"
          /\ written # << >>
          /\ Raise("format")
          /\ UNCHANGED sortPc
    /\ UNCHANGED <<models_module, excludes_read, excluded_apps, excluded_models,
                   n_labels, labels_read, primary_keys, written, instances,
                   commit, push, flags, commits, regVars, todo, models,
                   model_dependencies, graph, model_list, skipped, changed,
                   passes, sortError, loadVars>>

\* lines 136-149: the format is checked, then sort_dependencies is called
HandleFormat ==
    /\ dumpPc = "format"
    /\ \E known \in BOOLEAN :
          IF known
          THEN /\ dumpPc' = "sort"
               /\ sortPc' = "call"
               /\ UNCHANGED dumpError
          ELSE /\ Raise("format")
               /\ UNCHANGED sortPc
    /\ UNCHANGED <<models_module, excludes_read, excluded_apps, excluded_models,
                   n_labels, labels_read, primary_keys, written, instances,
                   commit, push, flags, commits, regVars, todo, models,
                   model_dependencies, graph, model_list, skipped, changed,
                   passes, sortError, loadVars>>

\* line 149: the CommandError of sort_dependencies leaves handle
HandleSortRaised ==
    /\ dumpPc = "sort"
    /\ sortPc = "raised"
    /\ Raise("cycle")
    /\ sortPc' = "idle"
    /\ UNCHANGED <<models_module, excludes_read, excluded_apps, excluded_models,
                   n_labels, labels_read, primary_keys, written, instances,
                   commit, push, flags, commits, regVars, todo, models,
                   model_dependencies, graph, model_list, skipped, changed,
                   passes, sortError, loadVars>>

\* line 149: the for loop receives the list
HandleSortReturned ==
    /\ dumpPc = "sort"
    /\ sortPc = "returned"
    /\ dumpPc' = "write"
    /\ sortPc' = "idle"
    /\ UNCHANGED <<models_module, excludes_read, excluded_apps, excluded_models,
                   n_labels, labels_read, primary_keys, written, instances,
                   commit, push, flags, commits, dumpError, regVars, todo, models,
                   model_dependencies, graph, model_list, skipped, changed,
                   passes, sortError, loadVars>>

\* lines 149-165: one turn of the loop over the sorted models
HandleWriteModel ==
    /\ dumpPc = "write"
    /\ Len(written) < Len(model_list)
    /\ \E rows \in 0..MaxRows :
          /\ written' = Append(written, model_list[Len(written) + 1])
          /\ instances' = instances + rows
    /\ UNCHANGED <<dumpPc, models_module, excludes_read, excluded_apps,
                   excluded_models, n_labels, labels_read, primary_keys, commit,
                   push, flags, commits, dumpError, regVars, sortVars, loadVars>>

\* lines 35-44: what the parser makes of the flags -a/--all, -c/--commit and
\* -p/--push. The three arguments are declared with dest='use_base_manager',
\* so each of them sets that one key and none sets 'commit' or 'push'
ParseArgs(a, c, p) == [use_base_manager |-> a \/ c \/ p]

\* options.get(key, default)
OptionsGet(options, key, default) ==
    IF key \in DOMAIN options THEN options[key] ELSE default

\* lines 49-50 and 167-174: commit and push are read from the options, the
\* summary is written, then the commit is made
HandleCommit ==
    /\ dumpPc = "write"
    /\ Len(written) = Len(model_list)
    /\ \E a \in BOOLEAN, c \in BOOLEAN, p \in BOOLEAN :
          LET options == ParseArgs(a, c, p)
              _commit == OptionsGet(options, "commit", FALSE)
              _push   == OptionsGet(options, "push", FALSE)
          IN  /\ flags' = [all |-> a, commit |-> c, push |-> p]
              /\ commit' = _commit
              /\ push' = _push
              /\ commits' = IF _commit \/ _push
                            THEN Append(commits, _push) ELSE commits
    /\ dumpPc' = "done"
    /\ UNCHANGED <<models_module, excludes_read, excluded_apps, excluded_models,
                   n_labels, labels_read, primary_keys, written, instances,
                   dumpError, regVars, sortVars, loadVars>>

\* the value of the counter "models" of handle
dumped_models == Len(written)

\* the next model, cyclically
Succ(m) == (m % NumModels) + 1

\* the registry of the dump: every model declares its successor as a
\* natural-key dependency and has a foreign key to it
DumpDecls == [m \in Models |-> {<<{Succ(m)}, {Succ(m)}>>}]

(***************************************************************************)
(* The fixtures and the database of the restore command.                   *)
(*                                                                         *)
(* A fixture file (a unit) holds one serialized instance. Its record may   *)
(* reference the row of another unit, or a row no unit holds (Ghost).      *)
(*   plain       the file decodes; the reference is by primary key, so the *)
(*               database refuses the save while the row is missing        *)
(*   natural     the reference is by natural key: deserialization looks    *)
(*               the row up and fails with "matching query does not        *)
(*               exist" while it is missing                                *)
(*   partial     the file holds a record without reference and, after it,  *)
(*               a record that references a row no unit holds by natural   *)
(*               key: the first record is decoded when the second one      *)
(*               fails with "matching query does not exist"                *)
(*   unrouted    the file decodes; the router does not allow its model     *)
(*   nomodel     DeserializationError "Invalid model identifier"           *)
(*   malformed   any other DeserializationError                            *)
(*   exception   reading raises an exception that is no                    *)
(*               DeserializationError                                      *)
(*   unreadable  open(path) raises IOError                                 *)
(***************************************************************************)
NoRef == 0

\* a row that is in no fixture and never in the database
Ghost == MaxUnits + 1

UnitsOf(n) ==
    [1..n ->
        [kind : {"plain"}, ref : {NoRef, Ghost} \cup (1..n)]
        \cup [kind : {"natural"}, ref : {Ghost} \cup (1..n)]
        \cup [kind : {"partial"}, ref : {Ghost}]
        \cup [kind : {"unrouted", "nomodel", "malformed", "exception",
                      "unreadable"},
              ref : {NoRef}]]

\* no record references itself
Batches(n) == {f \in UnitsOf(n) : \A u \in 1..n : f[u].ref # u}

\* the row a record references is in the database, or it references none
RefPresent(u) == units[u].ref = NoRef \/ units[u].ref \in store

\* open(path), fixture_file.read() and serializers.deserialize for one file
Decode(path) ==
    CASE units[path].kind = "unreadable" -> "IOError"
      [] units[path].kind = "exception"  -> "Exception"
      [] units[path].kind = "nomodel"    -> "Invalid model identifier"
      [] units[path].kind = "malformed"  -> "DeserializationError"
      [] units[path].kind \in {"natural", "partial"} ->
            IF RefPresent(path) THEN "ok" ELSE "matching query does not exist"
      [] OTHER                             -> "ok"

\* line 57: router.allow_migrate_model(using, obj.object.__class__)
AllowMigrate(obj) == units[obj].kind # "unrouted"

\* lines 58-60: obj.save(using=using) raises no DatabaseError, given the rows
\* st of the database
SaveOk(obj, st) == units[obj].ref = NoRef \/ units[obj].ref \in st

\* line 217: what "objects" holds when list(objects) has raised. It is the
\* generator serializers.deserialize returned, which the exception has ended:
\* the records decoded before the failing one were in the list that list()
\* was building, which is lost, so "missing_fks += objects" adds nothing
LeftObjects(path) == << >>

(***************************************************************************)
(* connection.constraint_checks_disabled(), the context manager of the     *)
(* with statements of gitrestore.py lines 121, 133, 141, 151 and 191. The  *)
(* operand "transaction.atomic(...) and" of the with statements of handle  *)
(* is true, so each of them enters constraint_checks_disabled() alone.     *)
(***************************************************************************)
\* bool(transaction.atomic(using=...)): an Atomic object defines neither
\* __bool__ nor __len__, so it is true
AtomicIsTrue == TRUE

\* the context managers the statement "with transaction.atomic(...) and
\* connection.constraint_checks_disabled():" enters: the value of "x and y"
\* is y when x is true, and x otherwise
WithEnters ==
    IF AtomicIsTrue THEN {"constraint_checks_disabled"} ELSE {"atomic"}

\* entering: disable_constraint_checking() of a backend that can switch the
\* checks off; "disabled" is what it returns
disable_constraint_checking == [checks |-> FALSE, disabled |-> TRUE]

\* ExitScope that switches the checks on again only when the body has not
\* raised
ExitScopeOnSuccess(checks, disabled, raised) ==
    IF disabled /\ ~raised THEN TRUE ELSE checks

\* leaving, with or without an exception: enable_constraint_checking() if
\* the checks were switched off on entry
ExitScope(checks, disabled, raised) == IF disabled THEN TRUE ELSE checks

\* the checks after one ingest pass: the scope of handle (lines 121, 141)
\* around the scope of loaddata (line 191)
PassChecks(raised) ==
    LET outer == disable_constraint_checking
        inner == disable_constraint_checking
        left  == ExitScope(inner.checks, inner.disabled, raised)
    IN  ExitScope(left, outer.disabled, raised)

(***************************************************************************)
(* Command.loaddata, gitrestore.py lines 165-234.                          *)
(***************************************************************************)
\* list.remove(x): the list without the first x
RemoveFirst(s, x) ==
    LET k == CHOOSE j \in 1..Len(s) :
                 s[j] = x /\ \A h \in 1..(j - 1) : s[h] # x
    IN  SubSeq(s, 1, k - 1) \o SubSeq(s, k + 1, Len(s))

\* lines 196-229: the for loop over fixture_labels, from the list index idx
\* on. Every branch removes the path from the list the loop iterates, so the
\* iterator, which counts positions, passes over the path that follows
RECURSIVE LoadLoop(_, _, _)
LoadLoop(fixture_labels, idx, acc) ==
    IF idx > Len(fixture_labels)
    THEN [acc EXCEPT !.fixture_labels = fixture_labels]
    ELSE LET path == fixture_labels[idx]
             out  == Decode(path)
             rest == RemoveFirst(fixture_labels, path)
         IN  IF out = "IOError"
             THEN [acc EXCEPT !.fixture_labels = fixture_labels,
                              !.raised = "IOError"]
             ELSE IF out = "ok"
             THEN LoadLoop(rest, idx + 1,
                      [acc EXCEPT !.loaded_objects = Append(@, path),
                                  !.processed = Append(@, path)])
             ELSE IF out = "Exception"
             THEN LoadLoop(rest, idx + 1, acc)
             ELSE IF out = "matching query does not exist"
             THEN LoadLoop(rest, idx + 1,
                      [acc EXCEPT !.skiped = Append(@, path),
                                  !.missing_fks = @ \o LeftObjects(path),
                                  !.no_row = @ \cup {path}])
             ELSE LoadLoop(rest, idx + 1,
                      [acc EXCEPT !.skiped = Append(@, path)])

\* loaddata(fixture_labels): the five values it returns; raised is the
\* exception that left it, no_row the paths that took the branch of line 216
loaddata(fixture_labels) ==
    LoadLoop(fixture_labels, 1,
             [fixture_labels |-> << >>, processed |-> << >>, skiped |-> << >>,
              loaded_objects |-> << >>, missing_fks |-> << >>,
              raised |-> "none", no_row |-> {}])

(***************************************************************************)
(* save_all, gitrestore.py lines 48-73.                                    *)
(***************************************************************************)
\* SaveAllStop with the cap compared by > : one round too many
SaveAllStopLate(objs, iters) == Len(objs) = 0 \/ iters > MaxIterations

\* line 51
SaveAllStop(objs, iters) == Len(objs) = 0 \/ iters >= MaxIterations

\* SaveLoop in which the exception of a failed save ends the for loop: the
\* records after the failing one are not tried in this round
RECURSIVE SaveLoopBreaks(_, _, _)
SaveLoopBreaks(objs, idx, acc) ==
    IF idx > Len(objs) THEN acc
    ELSE LET obj == objs[idx]
         IN  IF ~AllowMigrate(obj)
             THEN SaveLoopBreaks(objs, idx + 1, acc)
             ELSE LET tried == [acc EXCEPT !.attempts[obj] = @ + 1]
                  IN  IF SaveOk(obj, acc.store)
                      THEN SaveLoopBreaks(objs, idx + 1,
                               [tried EXCEPT !.store = @ \cup {obj}])
                      ELSE [tried EXCEPT !.skiped = Append(@, obj)]

\* lines 54-68: the for loop over objects from index idx on; acc holds
\* "skiped", the rows of the database and the attempts counted so far
RECURSIVE SaveLoop(_, _, _)
SaveLoop(objs, idx, acc) ==
    IF idx > Len(objs) THEN acc
    ELSE LET obj == objs[idx]
         IN  IF ~AllowMigrate(obj)
             THEN SaveLoop(objs, idx + 1, acc)
             ELSE LET tried == [acc EXCEPT !.attempts[obj] = @ + 1]
                  IN  IF SaveOk(obj, acc.store)
                      THEN SaveLoop(objs, idx + 1,
                               [tried EXCEPT !.store = @ \cup {obj}])
                      ELSE SaveLoop(objs, idx + 1,
                               [tried EXCEPT !.skiped = Append(@, obj)])

\* SaveRound that retries the whole list when a save of the round failed
SaveRoundRetryAll(objs) ==
    LET r == SaveLoop(objs, 1,
                 [skiped |-> << >>, store |-> store, attempts |-> attempts])
    IN  IF r.skiped = << >> THEN r ELSE [r EXCEPT !.skiped = objs]

\* SaveRound without "skiped.append(obj)": a failed save is not retried
SaveRoundNoRetry(objs) ==
    [SaveLoop(objs, 1,
              [skiped |-> << >>, store |-> store, attempts |-> attempts])
        EXCEPT !.skiped = << >>]

\* lines 54-68: one round, on the database and the attempts as they are
SaveRound(objs) ==
    SaveLoop(objs, 1, [skiped |-> << >>, store |-> store, attempts |-> attempts])

\* a save_all call is running
InSaveAll == restorePc \in {"save_b1", "save_b2", "save_d", "save_alone"}

\* where the caller continues when save_all has returned
AfterSaveAll ==
    CASE restorePc = "save_b1"    -> "after_b1"
      [] restorePc = "save_b2"    -> "after_b2"
      [] restorePc = "save_d"     -> "report"
      [] restorePc = "save_alone" -> "returned"

\* "iterations = save_all(...)": the caller receives the value; st is the
\* database the call leaves
SaveAllReturns(value, st) ==
    /\ iterations' = value
    /\ bound' = bound \cup {"iterations"}
    /\ restorePc' = AfterSaveAll
    /\ store_b' = IF restorePc = "save_b2" THEN st ELSE store_b
    /\ constraint_checks' =
          IF restorePc \in {"save_b2", "save_d"}
          THEN ExitScope(constraint_checks, TRUE, FALSE)
          ELSE constraint_checks
    /\ in_atomic' =
          IF restorePc \in {"save_b2", "save_d"} THEN FALSE ELSE in_atomic

\* the call of save_all(objs, using, iters)
CallSaveAll(objs, iters) ==
    /\ sa_objects' = objs
    /\ sa_iterations' = iters
    /\ sa_arg' = objs
    /\ sa_start' = iters

\* lines 51-52: nothing to save, or the cap is reached
SaveAllReturn ==
    /\ InSaveAll
    /\ SaveAllStop(sa_objects, sa_iterations)
    /\ SaveAllReturns(sa_iterations, store)
    /\ UNCHANGED <<units, _processed, store, connected, count_total, unloaded, processed,
                   skiped, really_skiped, objects, missing_fks, i,
                   restoreError, sa_objects, sa_iterations, sa_arg, sa_start,
                   round_at, attempts, fk_failed, regVars, sortVars, dumpVars>>

\* lines 54-73: one round of saves; with a record left the function calls
\* itself and returns what that call returns
SaveAllRound ==
    /\ InSaveAll
    /\ ~SaveAllStop(sa_objects, sa_iterations)
    /\ LET r == SaveRound(sa_objects)
       IN  /\ store' = r.store
           /\ attempts' = r.attempts
           /\ round_at' = sa_iterations
           /\ IF Len(r.skiped) > 0
              THEN /\ sa_objects' = r.skiped
                   /\ sa_iterations' = sa_iterations + 1
                   /\ UNCHANGED <<iterations, bound, restorePc, store_b,
                               constraint_checks, in_atomic>>
              ELSE /\ SaveAllReturns(sa_iterations, r.store)
                   /\ sa_objects' = r.skiped
                   /\ UNCHANGED sa_iterations
    /\ UNCHANGED <<units, _processed, connected, count_total, unloaded, processed, skiped,
                   really_skiped, objects, missing_fks, i, restoreError,
                   sa_arg, sa_start, fk_failed, regVars, sortVars, dumpVars>>

(***************************************************************************)
(* gitrestore Command.handle, gitrestore.py lines 92-163.                  *)
(***************************************************************************)
\* an exception leaves handle
Crash(name) ==
    /\ restorePc' = "crashed"
    /\ restoreError' = name

\* lines 106-118: the locals, and post_save.disconnect(gitversion)
RestoreStart ==
    /\ restorePc = "start"
    /\ restorePc' = "loop1"
    /\ connected' = FALSE
    /\ UNCHANGED <<units, _processed, constraint_checks, in_atomic, store, count_total, unloaded, processed, skiped,
                   really_skiped, objects, missing_fks, i, iterations, bound,
                   restoreError, sa_objects, sa_iterations, sa_arg, sa_start,
                   round_at, attempts, fk_failed, store_b, regVars, sortVars,
                   dumpVars>>

\* lines 119-131: one turn of the first while loop
Loop1Pass ==
    /\ restorePc = "loop1"
    /\ Len(unloaded) > 0
    /\ LET r == loaddata(unloaded)
       IN  IF r.raised # "none"
           THEN /\ Crash(r.raised)
                /\ unloaded' = r.fixture_labels
                /\ UNCHANGED <<processed, _processed, skiped, objects,
                               missing_fks, bound,
                               i, fk_failed>>
           ELSE /\ unloaded' = r.fixture_labels
                /\ missing_fks' = r.missing_fks
                /\ bound' = bound \cup {"missing_fks", "_processed"}
                /\ _processed' = r.processed
                /\ processed' = processed \o r.processed
                /\ skiped' = skiped \o r.skiped
                /\ objects' = objects \o r.loaded_objects
                /\ fk_failed' = fk_failed \cup r.no_row
                /\ i' = i + 1
                /\ UNCHANGED <<restorePc, restoreError>>
    /\ constraint_checks' = PassChecks(loaddata(unloaded).raised # "none")
    /\ in_atomic' = FALSE
    /\ UNCHANGED <<units, store, connected, count_total, really_skiped,
                   iterations, sa_objects, sa_iterations, sa_arg, sa_start,
                   round_at, attempts, store_b, regVars, sortVars, dumpVars>>

\* lines 119-131, with the TransactionManagementError of lines 128-130: the
\* scope of line 121 is not entered, because disable_constraint_checking()
\* runs a statement on a connection whose transaction is broken; loaddata is
\* not called, and the handler appends "_processed" as the last pass left it
Loop1PassTME ==
    /\ restorePc = "loop1"
    /\ Len(unloaded) > 0
    /\ i < MaxPasses
    /\ IF "_processed" \in bound
       THEN /\ unloaded' = unloaded \o _processed
            /\ i' = i + 1
            /\ UNCHANGED <<restorePc, restoreError>>
       ELSE /\ Crash("UnboundLocalError")
            /\ UNCHANGED <<unloaded, i>>
    /\ UNCHANGED <<units, _processed, constraint_checks, in_atomic, store, connected,
                   count_total, processed, skiped, really_skiped, objects,
                   missing_fks, iterations, bound, sa_objects, sa_iterations,
                   sa_arg, sa_start, round_at, attempts, fk_failed, store_b,
                   regVars, sortVars, dumpVars>>

\* lines 133-134: the first loop has ended; save_all(missing_fks, self.using)
SaveMissingFks ==
    /\ restorePc = "loop1"
    /\ Len(unloaded) = 0
    /\ IF "missing_fks" \in bound
       THEN /\ restorePc' = "save_b1"
            /\ CallSaveAll(missing_fks, 0)
            /\ constraint_checks' = disable_constraint_checking.checks
            /\ in_atomic' = ("atomic" \in WithEnters)
            /\ UNCHANGED restoreError
       ELSE /\ Crash("UnboundLocalError")
            /\ constraint_checks' =
                  ExitScope(disable_constraint_checking.checks,
                            disable_constraint_checking.disabled, TRUE)
            /\ in_atomic' = FALSE
            /\ UNCHANGED <<sa_objects, sa_iterations, sa_arg, sa_start>>
    /\ UNCHANGED <<units, _processed, store, connected, count_total, unloaded, processed,
                   skiped, really_skiped, objects, missing_fks, i, iterations,
                   bound, round_at, attempts, fk_failed, store_b, regVars,
                   sortVars, dumpVars>>

\* line 135: save_all(objects, self.using)
SaveObjects ==
    /\ restorePc = "after_b1"
    /\ restorePc' = "save_b2"
    /\ CallSaveAll(objects, 0)
    /\ UNCHANGED <<units, _processed, constraint_checks, in_atomic, store, connected, count_total, unloaded, processed,
                   skiped, really_skiped, objects, missing_fks, i, iterations,
                   bound, restoreError, round_at, attempts, fk_failed, store_b,
                   regVars, sortVars, dumpVars>>

\* Loop2Pass without "processed += _processed"
Loop2PassForgetsProcessed ==
    /\ restorePc = "after_b2"
    /\ Len(skiped) > 0
    /\ LET r == loaddata(skiped)
       IN  /\ r.raised = "none"
           /\ skiped' = r.fixture_labels
           /\ missing_fks' = r.missing_fks
           /\ _processed' = r.processed
           /\ really_skiped' = really_skiped \o r.skiped
           /\ objects' = objects \o r.loaded_objects
           /\ i' = i + 1
    /\ constraint_checks' = PassChecks(FALSE)
    /\ in_atomic' = FALSE
    /\ UNCHANGED <<units, store, connected, count_total, unloaded, processed,
                   iterations, bound, restorePc, restoreError, sa_objects,
                   sa_iterations, sa_arg, sa_start, round_at, attempts,
                   fk_failed, store_b, regVars, sortVars, dumpVars>>

\* lines 138-148: one turn of the second while loop
Loop2Pass ==
    /\ restorePc = "after_b2"
    /\ Len(skiped) > 0
    /\ LET r == loaddata(skiped)
       IN  IF r.raised # "none"
           THEN /\ Crash(r.raised)
                /\ skiped' = r.fixture_labels
                /\ UNCHANGED <<processed, _processed, really_skiped, objects,
                               missing_fks,
                               i>>
           ELSE /\ skiped' = r.fixture_labels
                /\ missing_fks' = r.missing_fks
                /\ _processed' = r.processed
                /\ processed' = processed \o r.processed
                /\ really_skiped' = really_skiped \o r.skiped
                /\ objects' = objects \o r.loaded_objects
                /\ i' = i + 1
                /\ UNCHANGED <<restorePc, restoreError>>
    /\ constraint_checks' = PassChecks(loaddata(skiped).raised # "none")
    /\ in_atomic' = FALSE
    /\ UNCHANGED <<units, store, connected, count_total, unloaded, iterations,
                   bound, sa_objects, sa_iterations, sa_arg, sa_start, round_at,
                   attempts, fk_failed, store_b, regVars, sortVars, dumpVars>>

\* lines 151-152: the second loop has ended;
\* save_all(objects, self.using, iterations)
SaveAgain ==
    /\ restorePc = "after_b2"
    /\ Len(skiped) = 0
    /\ restorePc' = "save_d"
    /\ constraint_checks' = disable_constraint_checking.checks
    /\ in_atomic' = ("atomic" \in WithEnters)
    /\ CallSaveAll(objects, iterations)
    /\ UNCHANGED <<units, _processed, store, connected, count_total, unloaded, processed,
                   skiped, really_skiped, objects, missing_fks, i, iterations,
                   bound, restoreError, round_at, attempts, fk_failed, store_b,
                   regVars, sortVars, dumpVars>>

\* lines 154-163: the summary, and post_save.connect(gitversion)
RestoreReport ==
    /\ restorePc = "report"
    /\ restorePc' = "done"
    /\ connected' = TRUE
    /\ UNCHANGED <<units, _processed, constraint_checks, in_atomic, store, count_total, unloaded, processed, skiped,
                   really_skiped, objects, missing_fks, i, iterations, bound,
                   restoreError, sa_objects, sa_iterations, sa_arg, sa_start,
                   round_at, attempts, fk_failed, store_b, regVars, sortVars,
                   dumpVars>>

\* what the summary line reports
reported ==
    [loaded |-> Len(processed), skipped |-> Len(really_skiped),
     total |-> count_total, loaddata_iterations |-> i,
     saving_iterations |-> iterations]

(***************************************************************************)
(* The specifications.                                                     *)
(***************************************************************************)
SortIdle ==
    /\ todo = << >>
    /\ models = {}
    /\ model_dependencies = << >>
    /\ graph = [m \in Models |-> {}]
    /\ model_list = << >>
    /\ skipped = << >>
    /\ changed = FALSE
    /\ passes = 0
    /\ sortError = << >>

DumpIdle ==
    /\ dumpPc = "idle"
    /\ models_module = [a \in Apps |-> TRUE]
    /\ excludes_read = 0
    /\ excluded_apps = {}
    /\ excluded_models = {}
    /\ n_labels = 0
    /\ labels_read = 0
    /\ primary_keys = FALSE
    /\ written = << >>
    /\ instances = 0
    /\ commit = FALSE
    /\ push = FALSE
    /\ flags = [all |-> FALSE, commit |-> FALSE, push |-> FALSE]
    /\ commits = << >>
    /\ dumpError = "none"

LoadIdle ==
    /\ units = << >>
    /\ store = {}
    /\ restorePc = "idle"
    /\ connected = TRUE
    /\ constraint_checks = TRUE
    /\ in_atomic = FALSE
    /\ count_total = 0
    /\ unloaded = << >>
    /\ processed = << >>
    /\ _processed = << >>
    /\ skiped = << >>
    /\ really_skiped = << >>
    /\ objects = << >>
    /\ missing_fks = << >>
    /\ i = 0
    /\ iterations = 0
    /\ bound = {}
    /\ restoreError = "none"
    /\ sa_objects = << >>
    /\ sa_iterations = 0
    /\ sa_arg = << >>
    /\ sa_start = 0
    /\ round_at = -1
    /\ attempts = << >>
    /\ fk_failed = {}
    /\ store_b = {}

\* sort_dependencies called on one pair that lists the models 1..n. The
\* function treats the models alike, so every other list of distinct models
\* is this one with the models renamed; the dependencies are any, on models
\* of the list and on models outside it
InitSort ==
    /\ natural \in [Models -> BOOLEAN]
    /\ \E n \in 0..NumModels :
          app_list = <<[app |-> 1, all |-> FALSE, list |-> [k \in 1..n |-> k]]>>
    /\ sortPc = "call"
    /\ SortIdle
    /\ DumpIdle
    /\ LoadIdle

NextSort ==
    \/ SortEnter
    \/ SortBuildModel(AnyDecls)
    \/ SortReverse
    \/ SortPassBegin
    \/ SortPop
    \/ SortPassEnd
    \/ SortReturn

SpecSort == InitSort /\ [][NextSort]_vars

\* sort_dependencies is sequential code: while a statement is left to run,
\* the interpreter runs it
SpecSortFair == InitSort /\ [][NextSort]_vars /\ WF_vars(NextSort)

InitDump ==
    /\ natural \in [Models -> BOOLEAN]
    /\ app_list = << >>
    /\ sortPc = "idle"
    /\ SortIdle
    /\ dumpPc = "excludes"
    /\ models_module \in [Apps -> BOOLEAN]
    /\ excludes_read = 0
    /\ excluded_apps = {}
    /\ excluded_models = {}
    /\ n_labels = 0
    /\ labels_read = 0
    /\ primary_keys = FALSE
    /\ written = << >>
    /\ instances = 0
    /\ commit = FALSE
    /\ push = FALSE
    /\ flags = [all |-> FALSE, commit |-> FALSE, push |-> FALSE]
    /\ commits = << >>
    /\ dumpError = "none"
    /\ LoadIdle

NextDump ==
    \/ HandleExclude
    \/ HandleLabels
    \/ HandleLabel
    \/ HandleLabelsEnd
    \/ HandleFormat
    \/ SortEnter
    \/ SortBuildModel(DumpDecls)
    \/ SortReverse
    \/ SortPassBegin
    \/ SortPop
    \/ SortPassEnd
    \/ SortReturn
    \/ HandleSortRaised
    \/ HandleSortReturned
    \/ HandleWriteModel
    \/ HandleCommit

SpecDump == InitDump /\ [][NextDump]_vars

\* handle is called: get_all_fixtures() has found the files 1..n, in this
\* order, holding anything; the database is empty
InitHandle ==
    \E n \in 0..MaxUnits :
       /\ units \in Batches(n)
       /\ store = {}
       /\ restorePc = "start"
       /\ connected = TRUE
       /\ constraint_checks = TRUE
       /\ in_atomic = FALSE
       /\ count_total = n
       /\ unloaded = [k \in 1..n |-> k]
       /\ processed = << >>
       /\ _processed = << >>
       /\ skiped = << >>
       /\ really_skiped = << >>
       /\ objects = << >>
       /\ missing_fks = << >>
       /\ i = 0
       /\ iterations = 0
       /\ bound = {}
       /\ restoreError = "none"
       /\ sa_objects = << >>
       /\ sa_iterations = 0
       /\ sa_arg = << >>
       /\ sa_start = 0
       /\ round_at = -1
       /\ attempts = [u \in 1..n |-> 0]
       /\ fk_failed = {}
       /\ store_b = {}

\* save_all is called on its own: on the decoded records 1..n, with any
\* value of iterations up to the cap, on an empty database
InitSaveAll ==
    \E n \in 0..MaxUnits, start \in 0..MaxIterations :
       /\ units \in {f \in Batches(n) :
                        \A u \in 1..n : f[u].kind \in {"plain", "unrouted"}}
       /\ store = {}
       /\ restorePc = "save_alone"
       /\ connected = TRUE
       /\ constraint_checks = TRUE
       /\ in_atomic = FALSE
       /\ count_total = 0
       /\ unloaded = << >>
       /\ processed = << >>
       /\ _processed = << >>
       /\ skiped = << >>
       /\ really_skiped = << >>
       /\ objects = << >>
       /\ missing_fks = << >>
       /\ i = 0
       /\ iterations = 0
       /\ bound = {}
       /\ restoreError = "none"
       /\ sa_objects = [k \in 1..n |-> k]
       /\ sa_iterations = start
       /\ sa_arg = [k \in 1..n |-> k]
       /\ sa_start = start
       /\ round_at = -1
       /\ attempts = [u \in 1..n |-> 0]
       /\ fk_failed = {}
       /\ store_b = {}

\* the restore command, entered through handle or through save_all
InitRestore ==
    /\ natural = [m \in Models |-> FALSE]
    /\ app_list = << >>
    /\ sortPc = "idle"
    /\ SortIdle
    /\ DumpIdle
    /\ (InitHandle \/ InitSaveAll)

NextRestore ==
    \/ RestoreStart
    \/ Loop1Pass
    \/ SaveMissingFks
    \/ SaveObjects
    \/ Loop2Pass
    \/ SaveAgain
    \/ SaveAllReturn
    \/ SaveAllRound
    \/ RestoreReport

SpecRestore == InitRestore /\ [][NextRestore]_vars

\* the restore command on a connection that can raise
\* TransactionManagementError when a pass scope is entered
InitRestoreTME ==
    /\ natural = [m \in Models |-> FALSE]
    /\ app_list = << >>
    /\ sortPc = "idle"
    /\ SortIdle
    /\ DumpIdle
    /\ InitHandle

NextRestoreTME ==
    \/ RestoreStart
    \/ Loop1Pass
    \/ Loop1PassTME
    \/ SaveMissingFks
    \/ SaveObjects
    \/ Loop2Pass
    \/ SaveAgain
    \/ RestoreReport
    \/ SaveAllReturn
    \/ SaveAllRound

SpecRestoreTME == InitRestoreTME /\ [][NextRestoreTME]_vars

(***************************************************************************)
(* Properties of sort_dependencies.                                        *)
(***************************************************************************)
\* position of x in a list that holds it
Pos(x, s) == CHOOSE k \in 1..Len(s) : s[k] = x

\* number of times x is in a list
Count(x, s) == Cardinality({k \in 1..Len(s) : s[k] = x})

\* the models handed to sort_dependencies
Selected == Range(Visit(app_list))

\* the dependency graph has a cycle among the models being serialized: some
\* of them each depend on one of them
Cyclic ==
    \E S \in (SUBSET models) \ {{}} : \A m \in S : graph[m] \cap S # {}

\* C1: on an acyclic dependency graph sort_dependencies does not fail, and
\* the list it returns holds every selected model exactly once, each
\* dependency that is selected before the model that depends on it.
C1_SortedOrder ==
    /\ sortPc = "raised" => Cyclic
    /\ sortPc = "returned" =>
          /\ Range(model_list) = Selected
          /\ \A m \in Selected : Count(m, model_list) = 1
          /\ \A m \in Selected : \A d \in graph[m] \cap Selected :
                Pos(d, model_list) < Pos(m, model_list)

\* a model that came after a model depending on it was moved before it
C1_Witness ==
    /\ sortPc = "returned"
    /\ Len(model_list) = NumModels
    /\ \E m, d \in Selected :
          /\ d \in graph[m]
          /\ Pos(m, Visit(app_list)) < Pos(d, Visit(app_list))
          /\ Pos(d, model_list) < Pos(m, model_list)

\* C2: on a dependency graph with a cycle among the selected models
\* sort_dependencies returns no list but raises, every model the error names
\* has a dependency that the error names too, and for 1 -> 2 -> 1 the error
\* names exactly 1 and 2.
C2_CycleError ==
    /\ sortPc = "returned" => ~Cyclic
    /\ sortPc = "raised" =>
          /\ sortError # << >>
          /\ \A m \in Range(sortError) : graph[m] \cap Range(sortError) # {}
          /\ (models = {1, 2} /\ graph[1] = {2} /\ graph[2] = {1})
                => sortError = <<1, 2>>

\* the two-model cycle of the scenario was reported
C2_Witness ==
    /\ sortPc = "raised"
    /\ models = {1, 2}
    /\ graph[1] = {2}
    /\ graph[2] = {1}
    /\ sortError = <<1, 2>>

(***************************************************************************)
(* Properties of the dump command.                                         *)
(***************************************************************************)
\* the models the user excluded, by app or by name
Excluded == {m \in Models : m \in excluded_models \/ AppOf(m) \in excluded_apps}

\* C9: a dump that ended with a CommandError (a configuration error or the
\* cycle error of sort_dependencies) has written no model, counted no
\* instance and made no commit.
C9_ErrorBeforeWrite ==
    dumpPc = "error" => written = << >> /\ instances = 0 /\ commits = << >>

\* the cycle error, the last of the errors handle can end with, ended it
C9_Witness ==
    /\ dumpPc = "error"
    /\ dumpError = "cycle"
    /\ Len(sortError) = NumModels

\* C10: no excluded model, excluded with its app or by its own name, is
\* handed to sort_dependencies or written, and a finished dump has written
\* exactly the selected models that are not excluded.
C10_ExcludedNotDumped ==
    /\ \A m \in Excluded : m \notin models /\ ~InSeq(m, written)
    /\ dumpPc = "done" => Range(written) = Selected \ Excluded

(***************************************************************************)
(* Properties of the restore command.                                      *)
(***************************************************************************)
\* handle is running or has ended
InHandle == restorePc \notin {"idle", "save_alone", "returned"}

\* a save_all call has just returned to its caller
JustReturned == restorePc \in {"after_b1", "after_b2", "report", "returned"}

\* the units of the batch
Batch == 1..count_total

\* C3: when handle has finished, every unit of the batch is counted once, as
\* processed or as skipped, and not as both.
C3_OneBucketPerUnit ==
    restorePc = "done" =>
       \A u \in Batch : Count(u, processed) + Count(u, really_skiped) = 1

\* C4: the counter of save_all never exceeds the cap, no save round runs
\* with the counter at the cap, and the value a call returns lies between the
\* value it was called with and the cap.
C4_IterationCap ==
    /\ sa_iterations <= MaxIterations
    /\ iterations <= MaxIterations
    /\ round_at < MaxIterations
    /\ (JustReturned \/ restorePc = "done") =>
          sa_start <= iterations /\ iterations <= MaxIterations

\* step (d) was called with the counter at the cap and records to save, and
\* returned the cap without a round
C4_Witness ==
    /\ restorePc = "report"
    /\ sa_start = MaxIterations
    /\ sa_arg # << >>
    /\ iterations = MaxIterations
    /\ round_at = MaxIterations - 1

\* every record of the call is routable and cannot be saved: the row it
\* references is not in the database the call leaves
NoneSaveable ==
    \A u \in Range(sa_arg) : AllowMigrate(u) /\ ~SaveOk(u, store)

\* C5: a save_all call from iteration 0 on records whose saves all fail
\* returns the cap, with all of the records still failing and none saved.
C5_AllFailingStopsAtCap ==
    (JustReturned /\ sa_start = 0 /\ sa_arg # << >> /\ NoneSaveable) =>
       /\ iterations = MaxIterations
       /\ sa_objects = sa_arg
       /\ Range(sa_arg) \cap store = {}

\* a full batch of records that reference a missing row came back at the cap
C5_Witness ==
    /\ restorePc = "returned"
    /\ sa_start = 0
    /\ Len(sa_arg) = MaxUnits
    /\ \A u \in Range(sa_arg) : units[u] = [kind |-> "plain", ref |-> Ghost]
    /\ iterations = MaxIterations
    /\ \A u \in Range(sa_arg) : attempts[u] = MaxIterations

\* C6: handle on an empty batch ends without an exception, with no pass, no
\* save iteration, nothing processed and nothing skipped.
C6_EmptyBatchCompletes ==
    (InHandle /\ count_total = 0) =>
       /\ restorePc # "crashed"
       /\ restorePc = "done" =>
             reported = [loaded |-> 0, skipped |-> 0, total |-> 0,
                         loaddata_iterations |-> 0, saving_iterations |-> 0]

\* the batch of the scenario: Book#1, which references Author#1 by natural
\* key, before Author#1
BookThenAuthor ==
    /\ InHandle
    /\ count_total = 2
    /\ units[1] = [kind |-> "natural", ref |-> 2]
    /\ units[2] = [kind |-> "plain", ref |-> NoRef]

\* C7: a unit the first loop could not decode for a missing row, whose row
\* step (b) has saved, is counted as processed and not as skipped when
\* handle has finished; Book#1 before Author#1 is reported as 2 processed
\* and 0 skipped.
C7_DeferredUnitProcessed ==
    restorePc = "done" =>
       /\ \A u \in fk_failed :
             units[u].ref \in store_b =>
                Count(u, processed) = 1 /\ ~InSeq(u, really_skiped)
       /\ BookThenAuthor => reported.loaded = 2 /\ reported.skipped = 0

\* the scenario has run to its end
C7_Witness ==
    /\ restorePc = "done"
    /\ BookThenAuthor
    /\ fk_failed = {1}
    /\ 2 \in store_b
    /\ processed = <<2, 1>>

\* u is on a chain of references that ends at a record without reference,
\* over the units other than x
RECURSIVE OnChain(_, _, _)
OnChain(u, x, fuel) ==
    /\ u # x
    /\ units[u].kind = "plain"
    /\ \/ units[u].ref = NoRef
       \/ /\ fuel > 0
          /\ units[u].ref \in Batch
          /\ OnChain(units[u].ref, x, fuel - 1)

\* the batch is one record x that can never be saved and a chain of the
\* other records, each referencing the one before it
ChainAndBroken(x) ==
    /\ x \in Batch
    /\ count_total >= 2
    /\ units[x].ref = Ghost
    /\ \A u \in Batch \ {x} : OnChain(u, x, count_total)
    /\ Cardinality({u \in Batch : units[u].ref = NoRef}) = 1
    /\ \A u, v \in Batch \ {x} : (u # v) => units[u].ref # units[v].ref

\* C8: a batch of one permanently failing record and a chain of loadable
\* records, in any order, ends with the chain saved and 1 reported skipped.
C8_ChainLoadedOneSkipped ==
    restorePc = "done" =>
       \A x \in Batch :
          ChainAndBroken(x) =>
             /\ (Batch \ {x}) \subseteq store
             /\ reported.skipped = 1

(***************************************************************************)
(* Properties of the commit of the dump command.                           *)
(***************************************************************************)
\* C11: a dump run with -c and/or -p has made exactly one commit when it is
\* done, after all models were written and with push as the flag -p says; a
\* dump run without the two flags has made none.
C11_CommitAsRequested ==
    dumpPc = "done" =>
       /\ Range(written) = Range(model_list)
       /\ (flags.commit \/ flags.push) => commits = <<flags.push>>
       /\ ~(flags.commit \/ flags.push) => commits = << >>

(***************************************************************************)
(* Properties of the scopes of the restore command.                        *)
(***************************************************************************)
\* handle is between post_save.disconnect and the end of step (d)
Restoring ==
    restorePc \in {"loop1", "save_b1", "after_b1", "save_b2", "after_b2",
                    "save_d", "report"}

\* C12: post_save is disconnected from gitversion while handle reads and
\* saves, and it is connected again when handle has ended, with the summary
\* or with an exception.
C12_HookSuspendedAndResumed ==
    InHandle =>
       /\ Restoring => ~connected
       /\ restorePc \in {"done", "crashed"} => connected

\* a persistence scope of handle is active: step (b) or step (d)
InPersistScope == restorePc \in {"save_b1", "after_b1", "save_b2", "save_d"}

\* C13: the connection enforces the foreign keys whenever no pass scope is
\* active, also after a pass that an exception has left.
C13_ChecksEnforcedOutsideScopes == ~InPersistScope => constraint_checks

\* an exception left an ingest pass after an earlier pass and the checks are
\* enforced
C13_Witness ==
    /\ restorePc = "crashed"
    /\ restoreError = "IOError"
    /\ i >= 1
    /\ constraint_checks

(***************************************************************************)
(* Properties of the ingest passes.                                        *)
(***************************************************************************)
\* the fixture files open() cannot read
Unreadable == {u \in Batch : units[u].kind = "unreadable"}

\* C14: a fixture file that cannot be opened does not end handle: no IOError
\* leaves it, and when handle has finished the file is counted as skipped.
C14_UnreadableUnitSkipped ==
    InHandle =>
       /\ restoreError # "IOError"
       /\ restorePc = "done" => \A u \in Unreadable : InSeq(u, really_skiped)

(***************************************************************************)
(* Properties of the rounds of save_all.                                   *)
(***************************************************************************)
\* the next step of the running save_all call is a round of saves
RoundStep == InSaveAll /\ ~SaveAllStop(sa_objects, sa_iterations)

\* the running save_all call is about to return without a round
StopStep == InSaveAll /\ SaveAllStop(sa_objects, sa_iterations)

\* the records the router lets save_all save
Routed(objs) == {u \in Range(objs) : AllowMigrate(u)}

\* C15: in a round of save_all no exception leaves the function; every
\* routable record of the round is tried, also after a save of the round
\* has failed; a record is in the retry set of the next round if and only
\* if its save failed.
C15_SaveErrorsCollected ==
    [][RoundStep =>
          /\ restorePc' # "crashed"
          /\ \A u \in Routed(sa_objects) :
                /\ attempts'[u] = attempts[u] + 1
                /\ InSeq(u, sa_objects') <=> u \notin store'
          /\ Range(sa_objects') \subseteq Routed(sa_objects)]_vars

\* record 1 references record 2, which comes after it: its save failed in
\* the first round, record 2 was still saved in that round, and the second
\* round saved record 1
C15_Witness ==
    /\ restorePc = "returned"
    /\ sa_start = 0
    /\ Len(sa_arg) >= 2
    /\ sa_arg[1] = 1
    /\ sa_arg[2] = 2
    /\ units[1] = [kind |-> "plain", ref |-> 2]
    /\ units[2] = [kind |-> "plain", ref |-> NoRef]
    /\ attempts[1] = 2
    /\ attempts[2] = 1
    /\ {1, 2} \subseteq store
    /\ iterations = 1

\* C18: the records of the next round of a save_all call are those of this
\* round whose save failed, in their order; the call goes on to a next round
\* exactly when a save failed, and it returns without a round when no record
\* is left or the counter is at the cap.
C18_FailingSetShrinks ==
    [][/\ RoundStep =>
             LET Failed(u) == AllowMigrate(u) /\ u \notin store'
             IN  /\ sa_objects' = SelectSeq(sa_objects, Failed)
                 /\ Range(sa_objects') \subseteq Range(sa_objects)
                 /\ IF sa_objects' = << >>
                    THEN restorePc' = AfterSaveAll /\ iterations' = sa_iterations
                    ELSE /\ restorePc' = restorePc
                         /\ sa_iterations' = sa_iterations + 1
       /\ StopStep =>
             /\ restorePc' = AfterSaveAll
             /\ iterations' = sa_iterations
             /\ attempts' = attempts
             /\ store' = store]_vars

\* a chain 1 -> 2 -> 3 given in this order: the failing set went from three
\* records to two to one
C18_Witness ==
    /\ restorePc = "save_alone"
    /\ sa_start = 0
    /\ sa_arg = <<1, 2, 3>>
    /\ sa_iterations = 2
    /\ sa_objects = <<1>>
    /\ store = {2, 3}

\* C16: a pass of loaddata that no exception has left returns the empty
\* batch: it has tried every unit the batch held.
C16_PassEmptiesBatch ==
    (restorePc = "loop1" /\ i >= 1) => unloaded = << >>

\* C17: the first loop of handle runs no more passes than the batch has
\* units, also when a TransactionManagementError has put units back.
C17_PassesBoundedByUnits == restorePc = "loop1" => i <= count_total

\* the units of which the first loop had decoded a record when the
\* reference of a later record was found missing
PartlyDecoded == {u \in fk_failed : units[u].kind = "partial"}

DecodedInStepC == {u \in fk_failed : InSeq(u, processed)}

\* C20: when step (d) has ended, every record the second loop decoded has
\* had a save attempt, whatever counter step (b) returned.
C20_StepCRecordsAttempted ==
    restorePc \in {"report", "done"} =>
       \A u \in DecodedInStepC : AllowMigrate(u) => attempts[u] >= 1

(***************************************************************************)
(* Properties of the recovery from TransactionManagementError.             *)
(***************************************************************************)
\* C21: a unit that is counted as processed is not put back into the batch
\* and is not counted a second time, also after a
\* TransactionManagementError.
C21_OnlyInFlightRequeued ==
    InHandle =>
       \A u \in Batch :
          /\ InSeq(u, processed) => ~InSeq(u, unloaded)
          /\ Count(u, processed) <= 1

(***************************************************************************)
(* Properties of the transaction of the restore command.                   *)
(***************************************************************************)
\* C22: a round of saves of handle runs inside a transaction.atomic block
\* and with the foreign-key checks relaxed.
C22_SavesInsideAtomic ==
    (InHandle /\ RoundStep) => in_atomic /\ ~constraint_checks

(***************************************************************************)
(* Properties of the records save_all leaves unsaved.                      *)
(***************************************************************************)
\* the decoded records the router lets through that are not in the database
Unsaved == {u \in Range(objects) : AllowMigrate(u) /\ u \notin store}

\* C23: the number of skipped units in the summary is at least the number
\* of decoded records that are still unsaved when handle has finished.
C23_UnsavedCountedAsSkipped ==
    restorePc = "done" => reported.skipped >= Cardinality(Unsaved)

(***************************************************************************)
(* Properties of the scan passes of sort_dependencies.                     *)
(***************************************************************************)
\* the inner while is about to pop an entry
PopStep == sortPc = "inner" /\ model_dependencies # << >>

\* the entry the inner while pops next
Top == model_dependencies[Len(model_dependencies)]

\* every dependency is outside the set being serialized or on the final list
Promotable(deps) ==
    \A d \in deps : d \notin models \/ d \in Range(model_list)

\* C24: a model whose dependencies are all outside the set being serialized
\* or already on the final list is put on the list by the turn of the scan
\* that visits it, and every model a cycle error names has a dependency
\* inside the set.
C24_OutsideDepsDoNotBlock ==
    [][/\ (PopStep /\ Promotable(Top.deps)) =>
             /\ model_list' = Append(model_list, Top.model)
             /\ changed'
       /\ sortPc' = "raised" =>
             \A m \in Range(sortError') : graph'[m] \cap models' # {}]_vars

\* every selected model has dependencies and all of them are outside the
\* selection; the list was returned
C24_Witness ==
    /\ sortPc = "returned"
    /\ models # {}
    /\ \A m \in models : graph[m] # {} /\ graph[m] \cap models = {}
    /\ Range(model_list) = models

\* the dependency graph without its self-edges has a cycle among the models
\* being serialized
CyclicWithoutSelfEdges ==
    \E S \in (SUBSET models) \ {{}} :
       \A m \in S : (graph[m] \ {m}) \cap S # {}

\* C25: a dependency of a model on itself, declared or by a relation, does
\* not make sort_dependencies fail: it raises only for a cycle that is left
\* when the self-edges are ignored.
C25_SelfEdgesIgnored == sortPc = "raised" => CyclicWithoutSelfEdges

\* sort_dependencies has returned the list or raised the CommandError
SortFinished == sortPc \in {"returned", "raised"}

\* what holds of the scan passes at every moment of a run
ScanPassesBounded ==
    /\ passes <= Cardinality(models)
    /\ (sortPc = "outer" /\ passes > 0) =>
          /\ changed
          /\ Len(model_list) >= passes
    /\ sortPc = "returned" =>
          /\ model_dependencies = << >>
          /\ Range(model_list) = models
    /\ sortPc = "raised" =>
          /\ ~changed
          /\ skipped # << >>
          /\ Range(model_list) # models

\* C26: sort_dependencies terminates: a scan pass that ends without the
\* error has promoted at least one model, no more scan passes are started
\* than there are models, the list is returned only with every model on it
\* and the error is raised only with models left, and every run ends with
\* the return or the error.
C26_SortTerminates == []ScanPassesBounded /\ <>SortFinished

\* three models that take three scan passes: the one scanned second waits
\* for the one scanned first, which waits for the one scanned last
C26_Witness ==
    /\ sortPc = "returned"
    /\ Cardinality(models) = 3
    /\ passes = Cardinality(models)

\* C27: in a restore, a record whose save has succeeded is not saved again:
\* no step adds a save attempt to a record that is a row of the database.
C27_SavedNotSavedAgain ==
    [][InHandle =>
          \A u \in Batch : u \in store => attempts'[u] = attempts[u]]_vars

====
